---- MODULE Spec2Model ----
(***************************************************************************)
(* Moonkit, pallet-migrations: the runtime-upgrade migration scheduler.    *)
(*                                                                         *)
(* The pallet's scheduler is modelled from its unit tests                  *)
(* (pallets/migrations/src/tests.rs) and, where the tests are silent, from *)
(* the design description (section 4.1 "Upgrade Scheduler").               *)
(* Names follow the tests: on_runtime_upgrade is the tick                  *)
(* (run_upgrade_tick), RuntimeUpgradeStarted / RuntimeUpgradeCompleted are *)
(* the cycle events (UpgradeCycleStarted / UpgradeCycleCompleted).         *)
(***************************************************************************)
EXTENDS Integers, Sequences, FiniteSets, TLC

\* ------------------------------------------------------------------ bounds
\* Longest registry built by MockMigrationManager::register_callback.
MaxRegistry == 3
\* Number of on_runtime_upgrade calls explored in one behaviour.
MaxTicks == 3
\* Highest block number roll_to advances to.
MaxBlockNumber == 3

\* Most legacy LocalAssets entries seeded before a clear (the test seeds 5,
\* tests.rs:298).
MaxEntries == 4
\* Number of clear_local_assets_storage calls explored in one behaviour.
MaxClears == 5

\* Number of foreign-asset-creator calls explored in one behaviour.
MaxAssetCalls == 4

\* Longest header digest and longest block body handed to the verifier.
MaxDigest == 3
MaxBody == 2

\* ------------------------------------------------------- program constants
\* Weight charged by a tick that runs no migration (tests.rs:112).
Overhead == 100000000
\* Weight reported by an over-weight migration step: above every max_block
\* value below, as tests.rs:255-257 requires (the test's 1_000_000_000_000 is
\* beyond TLC's 32-bit integers; three such steps plus the overhead fit).
OverweightCost == 5 * Overhead

\* Friendly names of the mock migrations (tests.rs:252, 262, 270).
Names == {"migration1", "migration2", "migration3"}

\* Values a mock step closure returns (tests.rs:63, 138, 257).
Costs == {0, 1, OverweightCost}

\* BlockWeights::max_block of the runtime the pallet is configured with
\* (tests.rs:223-224): a configuration value, here either equal to the fixed
\* overhead or larger, always below OverweightCost.
MaxBlockValues == {Overhead, 2 * Overhead}

\* Registries: ordered, names unique.
Registries ==
  UNION { { r \in [1..n -> Names] : \A i, j \in 1..n : i # j => r[i] # r[j] }
          : n \in 0..MaxRegistry }

VARIABLES
  registry,      \* MockMigrationManager: ordered sequence of migration names
  genesis,       \* names recorded as completed by the genesis build
  ledger,        \* MigrationState: names of the completed migrations
  max_block,     \* BlockWeights::max_block
  events,        \* System::events(): every event deposited so far
  mark,          \* length of events when the latest tick began
  calls,         \* every invocation of a step closure so far
  ret,           \* value the latest on_runtime_upgrade returned (-1: none yet)
  ticks,         \* number of on_runtime_upgrade calls so far
  block_number,  \* System::block_number()
  \* -- registry construction (MockMigrationManager)
  startup,            \* "configuring", "running" or "failed"
  config_error,       \* name reported by a failed registration ("" if none)
  register_attempts,  \* names handed to register_callback so far
  \* -- try-runtime hooks (consistency-check mode)
  try_phase,     \* "idle", "collected", "verified" or "failed"
  snapshots,     \* name -> snapshot its pre_check returned
  pre_calls,     \* pre_check invocations: [name, outcome]
  post_calls,    \* post_check invocations: [name, snapshot, outcome]
  try_result,    \* what the latest hook returned: [ok, stage, names]
  pre_ticks,     \* number of ticks run when the snapshots were collected
  \* -- legacy LocalAssets storage
  legacy0,       \* number of entries seeded
  legacy,        \* entries still in storage
  clear_log,     \* clear calls so far: [limit, before, after, ok]
  \* -- pallet foreign-asset-creator
  AssetIdToForeignAsset,  \* storage map: asset id -> foreign asset or None
  ForeignAssetToAssetId,  \* storage map: foreign asset -> asset id or None
  asset_result,  \* the latest call, its arguments and its DispatchResult
  asset_events,  \* number of events the pallet deposited so far
  last_event,    \* the latest event deposited (NoEvent if none)
  asset_calls,   \* number of calls so far
  \* -- nimbus import-queue verifier
  verify_input,  \* arguments and environment of the latest verify call
  verify_output  \* its Result: Ok(import parameters) or Err(message)

\* State outside the scheduler; a tick leaves all of it alone.
setup_vars == <<startup, config_error, register_attempts>>
try_vars == <<try_phase, snapshots, pre_calls, post_calls, try_result,
              pre_ticks>>
admin_vars == <<legacy0, legacy, clear_log>>
asset_vars == <<AssetIdToForeignAsset, ForeignAssetToAssetId, asset_result,
                asset_events, last_event, asset_calls>>
verifier_vars == <<verify_input, verify_output>>
aux_vars == <<setup_vars, try_vars, admin_vars, asset_vars, verifier_vars>>

vars == <<registry, genesis, ledger, max_block, events, mark, calls, ret,
          ticks, block_number, aux_vars>>

\* ------------------------------------------------------------------ events
RuntimeUpgradeStarted ==
  [type |-> "RuntimeUpgradeStarted", migration_name |-> "", weight |-> 0]
MigrationStarted(name) ==
  [type |-> "MigrationStarted", migration_name |-> name, weight |-> 0]
MigrationCompleted(name, consumed_weight) ==
  [type |-> "MigrationCompleted", migration_name |-> name,
   weight |-> consumed_weight]
RuntimeUpgradeCompleted(w) ==
  [type |-> "RuntimeUpgradeCompleted", migration_name |-> "", weight |-> w]

\* ----------------------------------------------------------------- helpers
RECURSIVE SumSeq(_)
SumSeq(s) == IF s = <<>> THEN 0 ELSE Head(s) + SumSeq(Tail(s))

RangeOf(s) == { s[i] : i \in DOMAIN s }

\* A mock migration's friendly names not yet completed, in registry order.
Outstanding(reg, led) == SelectSeq(reg, LAMBDA n : n \notin led)

\* Migrations::is_fully_upgraded(): every registry name is in the ledger.
\* (mutant) The answer is a flag that only a finished tick raises.
FullyUpgradedOnceTicked == ticks >= 1
is_fully_upgraded == \A i \in DOMAIN registry : registry[i] \in ledger

\* ------------------------------------------------- the scheduler's pieces
\* A migration counts as done when its friendly name is in MigrationState.
\* (mutant) The ledger is not consulted: every migration looks outstanding.
MigrationNeverDone(migration_name, led) == FALSE
\* (mutant) The test is inverted: every migration looks completed.
MigrationAlwaysDone(migration_name, led) == TRUE
migration_done(migration_name, led) == migration_name \in led

\* Budget handed to the next step: what is left of the allowance, zero once
\* the tick is over weight.
available_for_step(available_weight, weight) ==
  IF available_weight > weight THEN available_weight - weight ELSE 0

\* Budget policy: an over-weight tick still goes on to the next migration
\* ("maybe_catastrophic > certainly_catastrophic").
\* (mutant) The tick stops at the first migration that finds the budget spent.
StopWhenOverweight(available_weight, weight) == weight < available_weight
proceed_when_overweight(available_weight, weight) == TRUE

\* MigrationState::insert(name): record a finished migration.
\* (mutant) The insert overwrites the ledger instead of extending it.
InsertForgets(led, migration_name) == {migration_name}
\* (mutant) The name is not recorded while the tick is still running.
InsertDropped(led, migration_name) == led
insert(led, migration_name) == led \cup {migration_name}

\* Events of one migration: started, then completed with the consumed weight.
\* (mutant) The completion is announced before the start.
MigrationEventsSwapped(migration_name, consumed_weight) ==
  << MigrationCompleted(migration_name, consumed_weight),
     MigrationStarted(migration_name) >>
migration_events(migration_name, consumed_weight) ==
  << MigrationStarted(migration_name),
     MigrationCompleted(migration_name, consumed_weight) >>

\* One outstanding migration: announce, call step with the remaining budget,
\* record the name, announce completion, accumulate the consumed weight.
\* acc = [ledger, events, weight, calls]; consumed_weight is what step returns.
migrate(acc, migration_name, consumed_weight, available_weight, tick) ==
  [ ledger |-> insert(acc.ledger, migration_name),
    events |-> acc.events \o migration_events(migration_name, consumed_weight),
    weight |-> acc.weight + consumed_weight,
    calls  |-> Append(acc.calls,
                 [ name      |-> migration_name,
                   available |-> available_for_step(available_weight, acc.weight),
                   consumed  |-> consumed_weight,
                   before    |-> acc.ledger,
                   tick      |-> tick ]) ]

\* The loop over the registry, in registration order; cost[n] is the weight
\* the step closure of migration n returns.
RECURSIVE perform_runtime_upgrades(_, _, _, _, _)
perform_runtime_upgrades(migrations, cost, available_weight, tick, acc) ==
  IF migrations = <<>> THEN acc
  ELSE LET migration_name == Head(migrations)
           next == IF /\ ~migration_done(migration_name, acc.ledger)
                      /\ proceed_when_overweight(available_weight, acc.weight)
                   THEN migrate(acc, migration_name, cost[migration_name],
                                available_weight, tick)
                   ELSE acc
       IN perform_runtime_upgrades(Tail(migrations), cost, available_weight,
                                   tick, next)

\* Weight carried by RuntimeUpgradeCompleted: the migrations' consumed weight
\* plus the fixed overhead ("includes reads/writes").
\* (mutant) The fixed overhead is left out.
ChargedWithoutOverhead(consumed_total) == consumed_total
charged_weight(consumed_total) == Overhead + consumed_total

\* Events of one tick: RuntimeUpgradeStarted, the migrations' events,
\* RuntimeUpgradeCompleted.
\* (mutant) RuntimeUpgradeStarted is deposited only when a migration runs.
UpgradeEventsStartOnlyWhenPending(inner, weight) ==
  (IF inner = <<>> THEN <<>> ELSE <<RuntimeUpgradeStarted>>)
    \o inner \o <<RuntimeUpgradeCompleted(weight)>>
upgrade_events(inner, weight) ==
  <<RuntimeUpgradeStarted>> \o inner \o <<RuntimeUpgradeCompleted(weight)>>

\* Value on_runtime_upgrade hands back to the host: the whole block weight.
\* (mutant) The weight charged in the event is returned instead.
ReturnChargedWeight(block_max, weight) == weight
returned_weight(block_max, weight) == block_max

\* ----------------------------------------------------------- state machine
\* A registry that was built without error and is frozen.
SetupDone ==
  /\ startup = "running"
  /\ config_error = ""
  /\ register_attempts = registry

\* No try-runtime hook has run.
NoResult == [ok |-> TRUE, stage |-> "", names |-> <<>>]
TryIdle ==
  /\ try_phase = "idle"
  /\ snapshots = <<>>
  /\ pre_calls = <<>>
  /\ post_calls = <<>>
  /\ try_result = NoResult
  /\ pre_ticks = 0

\* No legacy storage entry and no clear call.
AdminIdle ==
  /\ legacy0 = 0
  /\ legacy = {}
  /\ clear_log = <<>>

\* pallet foreign-asset-creator: asset ids, foreign assets, Option::None.
AssetIds == {"asset1", "asset2"}
ForeignAssets == {"foreignA", "foreignB"}
None == "None"
NoCall ==
  [call |-> "", asset_id |-> None, foreign_asset |-> None, previous |-> None,
   result |-> ""]
NoEvent == [type |-> "", asset_id |-> None, foreign_asset |-> None]

\* Genesis of the foreign-asset-creator pallet: both maps empty.
AssetsEmpty ==
  /\ AssetIdToForeignAsset = [a \in AssetIds |-> None]
  /\ ForeignAssetToAssetId = [f \in ForeignAssets |-> None]
  /\ asset_result = NoCall
  /\ asset_events = 0
  /\ last_event = NoEvent
  /\ asset_calls = 0

\* Option<T>: None is the empty sequence, Some(x) the one-element sequence.
Some(x) == <<x>>
NoneOpt == <<>>

\* nimbus verifier: no verify call made yet.
NoVerify == [called |-> FALSE]
VerifierIdle ==
  /\ verify_input = NoVerify
  /\ verify_output = NoVerify

\* The parts of the state a scenario does not use, at rest.
AuxIdle == SetupDone /\ TryIdle /\ AdminIdle /\ AssetsEmpty /\ VerifierIdle

\* ExtBuilder::with_uncompleted_migrations(..).build(): a registry, a ledger
\* holding the names the genesis build marks completed, an empty event log.
Init ==
  /\ registry \in Registries
  /\ genesis \in SUBSET Names
  /\ ledger = genesis
  /\ max_block \in MaxBlockValues
  /\ events = <<>>
  /\ mark = 0
  /\ calls = <<>>
  /\ ret = -1
  /\ ticks = 0
  /\ block_number = 1
  /\ AuxIdle

\* Migrations::on_runtime_upgrade(): one tick of the scheduler.
on_runtime_upgrade ==
  /\ ticks < MaxTicks
  /\ \E cost \in [Names -> Costs] :
       LET acc == perform_runtime_upgrades(registry, cost, max_block, ticks + 1,
                    [ledger |-> ledger, events |-> <<>>, weight |-> 0,
                     calls |-> <<>>])
           weight == charged_weight(acc.weight)
       IN /\ ledger' = acc.ledger
          /\ events' = events \o upgrade_events(acc.events, weight)
          /\ mark' = Len(events)
          /\ calls' = calls \o acc.calls
          /\ ret' = returned_weight(max_block, weight)
  /\ ticks' = ticks + 1
  /\ UNCHANGED <<registry, genesis, max_block, block_number, aux_vars>>

\* crate::mock::roll_to(n, false): blocks pass without a runtime upgrade; no
\* migration is looked at and no event is deposited.
roll_to ==
  /\ block_number < MaxBlockNumber
  /\ block_number' = block_number + 1
  /\ UNCHANGED <<registry, genesis, ledger, max_block, events, mark, calls,
                 ret, ticks, aux_vars>>

Next == on_runtime_upgrade \/ roll_to

Spec == Init /\ [][Next]_vars

\* The host keeps invoking the tick (roll_until_upgraded, tests.rs:142-149).
SpecLive == Init /\ [][Next]_vars /\ WF_vars(on_runtime_upgrade)

\* ------------------------------------------------- building the registry
\* A name is a duplicate when a registered descriptor already carries it.
\* (mutant) Registration never looks at the names already registered.
DuplicateNeverSeen(reg, name) == FALSE
is_duplicate(reg, name) == name \in RangeOf(reg)

\* Before the first tick: an empty registry under construction.
InitSetup ==
  /\ registry = <<>>
  /\ genesis = {}
  /\ ledger = {}
  /\ max_block \in MaxBlockValues
  /\ events = <<>>
  /\ mark = 0
  /\ calls = <<>>
  /\ ret = -1
  /\ ticks = 0
  /\ block_number = 1
  /\ startup = "configuring"
  /\ config_error = ""
  /\ register_attempts = <<>>
  /\ TryIdle
  /\ AdminIdle
  /\ AssetsEmpty
  /\ VerifierIdle

\* MockMigrationManager::register_callback(name_fn, step_fn): append the
\* descriptor; a name that is already registered is a configuration error
\* that stops the startup.
register_callback ==
  /\ startup = "configuring"
  /\ Len(registry) < MaxRegistry
  /\ \E name \in Names :
       /\ register_attempts' = Append(register_attempts, name)
       /\ IF is_duplicate(registry, name)
          THEN /\ startup' = "failed"
               /\ config_error' = name
               /\ UNCHANGED registry
          ELSE /\ registry' = Append(registry, name)
               /\ UNCHANGED <<startup, config_error>>
  /\ UNCHANGED <<genesis, ledger, max_block, events, mark, calls, ret, ticks,
                 block_number, try_vars, admin_vars, asset_vars, verifier_vars>>

\* ExtBuilder::with_uncompleted_migrations(..).build(): the registry is
\* frozen and the genesis build records the completed names.
build ==
  /\ startup = "configuring"
  /\ startup' = "running"
  /\ genesis' \in SUBSET Names
  /\ ledger' = genesis'
  /\ UNCHANGED <<registry, max_block, events, mark, calls, ret, ticks,
                 block_number, config_error, register_attempts, try_vars,
                 admin_vars, asset_vars, verifier_vars>>

\* Ticks run only once the runtime is built.
upgrade_after_build == startup = "running" /\ on_runtime_upgrade

NextSetup == register_callback \/ build \/ upgrade_after_build

SpecSetup == InitSetup /\ [][NextSetup]_vars

\* ------------------------------------------------------ try-runtime hooks
\* What a mock pre_upgrade closure returns: a snapshot, or an error.
Snapshots == {"snapshotA", "snapshotB"}
PreOutcomes == Snapshots \cup {"err"}
PostOutcomes == {"ok", "err"}

\* Descriptors whose pre_check is run: every registered one.
\* (mutant) Only the migrations still outstanding are checked.
PreCheckedOnlyOutstanding(reg, led) == Outstanding(reg, led)
pre_checked(reg, led) == reg

\* Descriptors whose post_check is run: those with a stored snapshot.
post_checked(reg, snaps) == SelectSeq(reg, LAMBDA n : n \in DOMAIN snaps)

\* Aggregated result of a hook: a failure carries the names of the
\* descriptors whose check failed.
\* (mutant) Failures are swallowed and the hook reports success.
AggregateSwallows(stage, failed) ==
  [ok |-> TRUE, stage |-> stage, names |-> <<>>]
aggregate(stage, failed) ==
  [ok |-> failed = <<>>, stage |-> stage, names |-> failed]

FailedNames(cs) ==
  LET bad == SelectSeq(cs, LAMBDA c : c.outcome = "err")
  IN [i \in DOMAIN bad |-> bad[i].name]

\* Hooks::pre_upgrade (collect_pre_upgrade_state): run the pre_check of the
\* descriptors, keep the snapshots, fail if any check failed.
pre_upgrade ==
  /\ try_phase = "idle"
  /\ \E pre \in [RangeOf(registry) -> PreOutcomes] :
       LET checked == pre_checked(registry, ledger)
           cs == [i \in DOMAIN checked |->
                    [name |-> checked[i], outcome |-> pre[checked[i]]]]
           res == aggregate("pre_check", FailedNames(cs))
       IN /\ pre_calls' = cs
          /\ try_result' = res
          /\ IF res.ok
             THEN /\ try_phase' = "collected"
                  /\ snapshots' = [n \in RangeOf(checked) |-> pre[n]]
             ELSE /\ try_phase' = "failed"
                  /\ snapshots' = <<>>
  /\ pre_ticks' = ticks
  /\ UNCHANGED <<registry, genesis, ledger, max_block, events, mark, calls,
                 ret, ticks, block_number, setup_vars, post_calls,
                 admin_vars, asset_vars, verifier_vars>>

\* The runtime upgrade itself, between the two hooks
\* (crate::mock::invoke_all_upgrade_hooks).
try_on_runtime_upgrade ==
  /\ try_phase = "collected"
  /\ ticks = pre_ticks
  /\ on_runtime_upgrade

\* Hooks::post_upgrade (verify_post_upgrade_state): after the scheduler ran,
\* run post_check on each stored snapshot.
post_upgrade ==
  /\ try_phase = "collected"
  /\ ticks > pre_ticks
  /\ \E post \in [RangeOf(registry) -> PostOutcomes] :
       LET checked == post_checked(registry, snapshots)
           cs == [i \in DOMAIN checked |->
                    [name |-> checked[i], snapshot |-> snapshots[checked[i]],
                     outcome |-> post[checked[i]]]]
           res == aggregate("post_check", FailedNames(cs))
       IN /\ post_calls' = cs
          /\ try_result' = res
          /\ try_phase' = IF res.ok THEN "verified" ELSE "failed"
  /\ UNCHANGED <<registry, genesis, ledger, max_block, events, mark, calls,
                 ret, ticks, block_number, setup_vars, snapshots, pre_calls,
                 pre_ticks, admin_vars, asset_vars, verifier_vars>>

NextTryRuntime == pre_upgrade \/ try_on_runtime_upgrade \/ post_upgrade

SpecTryRuntime == Init /\ [][NextTryRuntime]_vars

\* ------------------------------------------- legacy LocalAssets storage
\* ExtBuilder::default().build(): no mock migration registered.
DefaultRuntime ==
  /\ registry = <<>>
  /\ genesis = {}
  /\ ledger = {}
  /\ max_block \in MaxBlockValues
  /\ events = <<>>
  /\ mark = 0
  /\ calls = <<>>
  /\ ret = -1
  /\ ticks = 0
  /\ block_number = 1

\* The test's setup: entries gen_dummy_entry(0) .. gen_dummy_entry(N-1) are
\* written under the LocalAssets prefix and committed.
InitClear ==
  /\ DefaultRuntime
  /\ SetupDone
  /\ TryIdle
  /\ legacy0 \in 0..MaxEntries
  /\ legacy = 0..(legacy0 - 1)
  /\ clear_log = <<>>
  /\ AssetsEmpty
  /\ VerifierIdle

\* The call fails when no entry is left under the prefix.
\* (mutant) A call that finds nothing to remove still succeeds.
ClearNeverFails(present) == FALSE
nothing_to_clear(present) == present = 0

\* Number of entries one call removes: at most limit.
\* (mutant) The limit is ignored and the whole prefix is cleared.
ClearIgnoresLimit(limit, present) == present
keys_removed(limit, present) == IF limit < present THEN limit ELSE present

\* Migrations::clear_local_assets_storage(origin, limit): remove up to limit
\* entries under the LocalAssets prefix; an error when none is left.
clear_local_assets_storage ==
  /\ Len(clear_log) < MaxClears
  /\ \E limit \in 0..(MaxEntries + 1) :
       IF nothing_to_clear(Cardinality(legacy))
       THEN /\ clear_log' = Append(clear_log,
                 [limit |-> limit, before |-> legacy, after |-> legacy,
                  ok |-> FALSE])
            /\ UNCHANGED legacy
       ELSE \E removed \in SUBSET legacy :
              /\ Cardinality(removed) = keys_removed(limit, Cardinality(legacy))
              /\ legacy' = legacy \ removed
              /\ clear_log' = Append(clear_log,
                   [limit |-> limit, before |-> legacy, after |-> legacy',
                    ok |-> TRUE])
  /\ UNCHANGED <<registry, genesis, ledger, max_block, events, mark, calls,
                 ret, ticks, block_number, setup_vars, try_vars, legacy0,
                 asset_vars, verifier_vars>>

NextClear == clear_local_assets_storage

SpecClear == InitClear /\ [][NextClear]_vars

\* ------------------------------------------- pallet foreign-asset-creator

\* StorageMap::insert and StorageMap::remove on a map kept as a function
\* into Option (None for an absent key).
storage_insert(map, key, value) == [map EXCEPT ![key] = value]
storage_remove(map, key) == [map EXCEPT ![key] = None]

ForeignAssetCreated(asset_id, foreign_asset) ==
  [type |-> "ForeignAssetCreated", asset_id |-> asset_id,
   foreign_asset |-> foreign_asset]
ForeignAssetTypeChanged(asset_id, new_foreign_asset) ==
  [type |-> "ForeignAssetTypeChanged", asset_id |-> asset_id,
   foreign_asset |-> new_foreign_asset]
ForeignAssetRemoved(asset_id, foreign_asset) ==
  [type |-> "ForeignAssetRemoved", asset_id |-> asset_id,
   foreign_asset |-> foreign_asset]
ForeignAssetDestroyed(asset_id, foreign_asset) ==
  [type |-> "ForeignAssetDestroyed", asset_id |-> asset_id,
   foreign_asset |-> foreign_asset]

\* What every dispatched call leaves behind: the record of the call, and the
\* parts of the runtime the pallet does not touch.
dispatched(call, asset_id, foreign_asset, previous, result) ==
  /\ asset_calls' = asset_calls + 1
  /\ asset_result' = [call |-> call, asset_id |-> asset_id,
                      foreign_asset |-> foreign_asset, previous |-> previous,
                      result |-> result]
  /\ UNCHANGED <<registry, genesis, ledger, max_block, events, mark, calls,
                 ret, ticks, block_number, setup_vars, try_vars, admin_vars,
                 verifier_vars>>

\* A failing call that nevertheless deposits an event.
DispatchErrorDepositsEvent(call, asset_id, foreign_asset, error) ==
  /\ dispatched(call, asset_id, foreign_asset, None, error)
  /\ asset_events' = asset_events + 1
  /\ last_event' = [type |-> error, asset_id |-> asset_id,
                    foreign_asset |-> foreign_asset]
  /\ UNCHANGED <<AssetIdToForeignAsset, ForeignAssetToAssetId>>

\* `?` / ensure! returning Err before any storage write or event.
dispatch_error(call, asset_id, foreign_asset, error) ==
  /\ dispatched(call, asset_id, foreign_asset, None, error)
  /\ UNCHANGED <<AssetIdToForeignAsset, ForeignAssetToAssetId, asset_events,
                 last_event>>

deposit_event(event) ==
  /\ asset_events' = asset_events + 1
  /\ last_event' = event

create_foreign_asset ==
  /\ asset_calls < MaxAssetCalls
  /\ \E origin_ok \in BOOLEAN, foreign_asset \in ForeignAssets,
        asset_id \in AssetIds, fungibles_ok \in BOOLEAN :
       LET call == "create_foreign_asset" IN
       IF ~origin_ok
       THEN dispatch_error(call, asset_id, foreign_asset, "BadOrigin")
       ELSE IF AssetIdToForeignAsset[asset_id] # None
       THEN dispatch_error(call, asset_id, foreign_asset,
                           "AssetAlreadyExists")
       ELSE IF ~fungibles_ok
       THEN dispatch_error(call, asset_id, foreign_asset, "FungiblesError")
       ELSE /\ AssetIdToForeignAsset' =
                 storage_insert(AssetIdToForeignAsset, asset_id, foreign_asset)
            /\ ForeignAssetToAssetId' =
                 storage_insert(ForeignAssetToAssetId, foreign_asset, asset_id)
            /\ deposit_event(ForeignAssetCreated(asset_id, foreign_asset))
            /\ dispatched(call, asset_id, foreign_asset, None, "Ok")

change_existing_asset_type ==
  /\ asset_calls < MaxAssetCalls
  /\ \E origin_ok \in BOOLEAN, asset_id \in AssetIds,
        new_foreign_asset \in ForeignAssets :
       LET call == "change_existing_asset_type"
           previous_foreign_asset == AssetIdToForeignAsset[asset_id]
       IN
       IF ~origin_ok
       THEN dispatch_error(call, asset_id, new_foreign_asset, "BadOrigin")
       ELSE IF previous_foreign_asset = None
       THEN dispatch_error(call, asset_id, new_foreign_asset,
                           "AssetDoesNotExist")
       ELSE /\ AssetIdToForeignAsset' =
                 storage_insert(AssetIdToForeignAsset, asset_id,
                                new_foreign_asset)
            /\ ForeignAssetToAssetId' =
                 storage_remove(
                   storage_insert(ForeignAssetToAssetId, new_foreign_asset,
                                  asset_id),
                   previous_foreign_asset)
            /\ deposit_event(
                 ForeignAssetTypeChanged(asset_id, new_foreign_asset))
            /\ dispatched(call, asset_id, new_foreign_asset,
                          previous_foreign_asset, "Ok")

remove_existing_asset_type ==
  /\ asset_calls < MaxAssetCalls
  /\ \E origin_ok \in BOOLEAN, asset_id \in AssetIds :
       LET call == "remove_existing_asset_type"
           foreign_asset == AssetIdToForeignAsset[asset_id]
       IN
       IF ~origin_ok
       THEN dispatch_error(call, asset_id, None, "BadOrigin")
       ELSE IF foreign_asset = None
       THEN dispatch_error(call, asset_id, None, "AssetDoesNotExist")
       ELSE /\ AssetIdToForeignAsset' =
                 storage_remove(AssetIdToForeignAsset, asset_id)
            /\ ForeignAssetToAssetId' =
                 storage_remove(ForeignAssetToAssetId, foreign_asset)
            /\ deposit_event(ForeignAssetRemoved(asset_id, foreign_asset))
            /\ dispatched(call, asset_id, foreign_asset, foreign_asset, "Ok")

destroy_foreign_asset ==
  /\ asset_calls < MaxAssetCalls
  /\ \E origin_ok \in BOOLEAN, asset_id \in AssetIds,
        fungibles_ok \in BOOLEAN :
       LET call == "destroy_foreign_asset"
           foreign_asset == AssetIdToForeignAsset[asset_id]
       IN
       IF ~origin_ok
       THEN dispatch_error(call, asset_id, None, "BadOrigin")
       ELSE IF foreign_asset = None
       THEN dispatch_error(call, asset_id, None, "AssetDoesNotExist")
       ELSE IF ~fungibles_ok
       THEN dispatch_error(call, asset_id, None, "FungiblesError")
       ELSE /\ AssetIdToForeignAsset' =
                 storage_remove(AssetIdToForeignAsset, asset_id)
            /\ ForeignAssetToAssetId' =
                 storage_remove(ForeignAssetToAssetId, foreign_asset)
            /\ deposit_event(ForeignAssetDestroyed(asset_id, foreign_asset))
            /\ dispatched(call, asset_id, foreign_asset, foreign_asset, "Ok")

\* MaybeEquivalence: the two lookups other pallets use.
convert(foreign_asset) == ForeignAssetToAssetId[foreign_asset]
convert_back(id) == AssetIdToForeignAsset[id]

InitAssets ==
  /\ DefaultRuntime
  /\ SetupDone
  /\ TryIdle
  /\ AdminIdle
  /\ AssetsEmpty
  /\ VerifierIdle

NextAssets ==
  \/ create_foreign_asset
  \/ change_existing_asset_type
  \/ remove_existing_asset_type
  \/ destroy_foreign_asset

SpecAssets == InitAssets /\ [][NextAssets]_vars

\* ------------------------------------------- nimbus import-queue verifier

RECURSIVE SeqsUpTo(_, _)
\* All sequences over `items` of length at most n.
SeqsUpTo(items, n) ==
  IF n = 0 THEN {<<>>}
  ELSE LET shorter == SeqsUpTo(items, n - 1)
       IN shorter \cup {Append(q, x) : q \in shorter, x \in items}

BlockOrigins == {"NetworkInitialSync", "NetworkBroadcast", "Own"}
DigestItems == {"PreRuntime", "Seal"}
Extrinsics == {"xt1", "xt2"}
ParentHashes == {"parentA", "parentB"}
Headers ==
  [parent_hash : ParentHashes, digest : SeqsUpTo(DigestItems, MaxDigest)]
Bodies == SeqsUpTo(Extrinsics, MaxBody)
OptBodies == {NoneOpt} \cup {Some(b) : b \in Bodies}
OptJustifications == {NoneOpt, Some("justification")}

\* create_inherent_data(): Ok(data) or Err.
InherentDataOutcomes ==
  {[ok |-> TRUE, value |-> "inherent_data"],
   [ok |-> FALSE, value |-> "InherentDataError"]}

\* check_inherents(): Err (the runtime call failed) or Ok(CheckInherentsResult)
\* with the result's ok flag and the errors it lists, in iteration order.
InherentErrors == {<<>>, <<"error1">>, <<"error1", "error2">>}
CheckInherentsOutcomes ==
  {[call_ok |-> FALSE, ok |-> FALSE, errors |-> <<>>]}
    \cup [call_ok : {TRUE}, ok : BOOLEAN, errors : InherentErrors]

Err(message) == [called |-> TRUE, ok |-> FALSE, error |-> message,
                 params |-> NoneOpt]
Ok(params) == [called |-> TRUE, ok |-> TRUE, error |-> "",
               params |-> Some(params)]

\* header.digest_mut().pop(): the seal with the first item taken instead.
PopFirst(digest) == [seal |-> Head(digest), rest |-> Tail(digest)]

\* header.digest_mut().pop() on a non-empty digest: the item popped and the
\* digest left in the header.
pop(digest) ==
  [seal |-> digest[Len(digest)],
   rest |-> SubSeq(digest, 1, Len(digest) - 1)]

\* into_errors().try_for_each(|(i, e)| Err(error_to_string(i, e))): the first
\* error stops the iteration with Err; no error at all is Ok(()).
try_for_each_err(errors) ==
  IF errors = <<>> THEN [ok |-> TRUE, error |-> ""]
  ELSE [ok |-> FALSE, error |-> Head(errors)]

\* Block::new(header, inner_body) followed by block.deconstruct().
deconstruct_body(inner_body) == inner_body

\* BlockImportParams::new(origin, header) and the fields verify then sets.
block_import_params(origin, header, seal, body, justifications) ==
  [origin |-> origin,
   header |-> header,
   post_digests |-> <<seal>>,
   body |-> body,
   justifications |-> justifications,
   fork_choice |-> origin = "NetworkInitialSync"]

\* The inherent checking of a block that has a body: Err(message), or the
\* body to import.
check_body(inner_body, inherent_data, inherent_res) ==
  IF ~inherent_data.ok THEN [ok |-> FALSE, error |-> inherent_data.value]
  ELSE IF ~inherent_res.call_ok
  THEN [ok |-> FALSE, error |-> "RuntimeApiError"]
  ELSE IF ~inherent_res.ok /\ ~try_for_each_err(inherent_res.errors).ok
  THEN [ok |-> FALSE, error |-> try_for_each_err(inherent_res.errors).error]
  ELSE [ok |-> TRUE, body |-> Some(deconstruct_body(inner_body))]

\* Verifier::verify as a function of its arguments and of what the inherent
\* data providers and the runtime answer.
verify_result(origin, header, justifications, body, inherent_data, inherent_res) ==
  IF header.digest = <<>> THEN Err("HeaderUnsealed")
  ELSE LET popped == pop(header.digest)
           sealed_header == [header EXCEPT !.digest = popped.rest]
       IN IF body = NoneOpt
          THEN Ok(block_import_params(origin, sealed_header, popped.seal,
                                      NoneOpt, justifications))
          ELSE LET checked == check_body(body[1], inherent_data, inherent_res)
               IN IF ~checked.ok THEN Err(checked.error)
                  ELSE Ok(block_import_params(origin, sealed_header,
                                              popped.seal, checked.body,
                                              justifications))

\* The calls explored: every combination of arguments and of answers from
\* the inherent data providers and the runtime.
VerifyInputs ==
  [called : {TRUE}, origin : BlockOrigins, header : Headers,
   justifications : OptJustifications, body : OptBodies,
   inherent_data : InherentDataOutcomes,
   inherent_res : CheckInherentsOutcomes]

\* The verifier keeps no state between calls (client, providers and marker
\* are only read), so one call per behaviour on a freely chosen input covers
\* every call.
verify ==
  /\ verify_output = NoVerify
  /\ verify_output' = verify_result(verify_input.origin, verify_input.header,
                                    verify_input.justifications,
                                    verify_input.body,
                                    verify_input.inherent_data,
                                    verify_input.inherent_res)
  /\ UNCHANGED <<registry, genesis, ledger, max_block, events, mark, calls,
                 ret, ticks, block_number, setup_vars, try_vars, admin_vars,
                 asset_vars, verify_input>>

InitVerifier ==
  /\ DefaultRuntime
  /\ SetupDone
  /\ TryIdle
  /\ AdminIdle
  /\ AssetsEmpty
  /\ verify_input \in VerifyInputs
  /\ verify_output = NoVerify

NextVerifier == verify

SpecVerifier == InitVerifier /\ [][NextVerifier]_vars

\* --------------------------------------------------- observation operators
\* Events deposited by the latest tick.
TickEvents == SubSeq(events, mark + 1, Len(events))
\* Step invocations of tick t.
CallsOf(t) == SelectSeq(calls, LAMBDA c : c.tick = t)
CallNames(cs) == [i \in DOMAIN cs |-> cs[i].name]
CallWeights(cs) == [i \in DOMAIN cs |-> cs[i].consumed]
\* Weight carried by the latest RuntimeUpgradeCompleted event.
WeightCharged == events[Len(events)].weight
EventCount(type, name) ==
  Cardinality({ i \in DOMAIN events :
                  events[i].type = type /\ events[i].migration_name = name })

TypeOK ==
  /\ registry \in Registries
  /\ ledger \subseteq Names
  /\ ticks \in 0..MaxTicks
  /\ block_number \in 1..MaxBlockNumber
  /\ mark \in 0..Len(events)

\* ================================================================ claims
\* C1 (as stated): for every registry and every initial ledger that leaves
\* work to do, once ticks have made is_fully_upgraded() hold, step has been
\* invoked for every registry name exactly once, in registration order, and
\* no name has two MigrationCompleted events.
C1_EveryNameVisitedOnce ==
  (/\ ticks >= 1
   /\ Outstanding(registry, genesis) # <<>>
   /\ is_fully_upgraded) =>
    /\ CallNames(calls) = registry
    /\ \A n \in Names : EventCount("MigrationCompleted", n) <= 1

\* C1 (amended): once ticks have run, is_fully_upgraded() holds and step has
\* been invoked exactly once, in registration order, for every registry name
\* that the initial ledger did not hold, and for no other name; each of them
\* was absent from the ledger when its step ran and is in it afterwards, and
\* no name has two MigrationCompleted events.
C1_EveryOutstandingNameVisitedOnce ==
  ticks >= 1 =>
    /\ is_fully_upgraded
    /\ CallNames(calls) = Outstanding(registry, genesis)
    /\ \A i \in DOMAIN calls : calls[i].name \notin calls[i].before
    /\ ledger = genesis \cup RangeOf(registry)
    /\ \A n \in Names : EventCount("MigrationCompleted", n) <= 1

\* C1 witness: three registered migrations, one already in the initial
\* ledger, the other two run, and further ticks have passed.
C1_Witness ==
  /\ ticks >= 2
  /\ Len(registry) = 3
  /\ Cardinality(genesis \cap RangeOf(registry)) = 1
  /\ Len(calls) = 2
  /\ is_fully_upgraded

\* C2: whatever weights the steps report, also weights above the whole
\* max_block budget, one tick invokes the step of every outstanding migration
\* exactly once and ends fully upgraded.
C2_OverweightTolerated ==
  [][ ticks' = ticks + 1 =>
        /\ is_fully_upgraded'
        /\ Len(calls') = Len(calls) + Len(Outstanding(registry, ledger))
        /\ \A i \in DOMAIN registry :
             registry[i] \notin ledger =>
               Cardinality({ k \in DOMAIN calls' :
                               /\ k > Len(calls)
                               /\ calls'[k].name = registry[i] }) = 1
    ]_vars

\* C2 witness: three migrations each reporting more than max_block ran in
\* a single tick, the later ones with no budget left.
C2_Witness ==
  /\ ticks = 1
  /\ Len(calls) = 3
  /\ \A i \in DOMAIN calls :
       calls[i].consumed = OverweightCost /\ calls[i].consumed > max_block
  /\ calls[3].available = 0
  /\ is_fully_upgraded

\* C3: once fully upgraded, a further tick invokes no step, leaves the
\* ledger unchanged and charges only the fixed overhead.
C3_Idempotent ==
  [][ (is_fully_upgraded /\ ticks' = ticks + 1) =>
        /\ calls' = calls
        /\ ledger' = ledger
        /\ WeightCharged' = Overhead
    ]_vars

\* C3 witness: a migration ran in an earlier tick; the latest tick ran none
\* and charged the overhead.
C3_Witness ==
  /\ ticks >= 2
  /\ calls # <<>>
  /\ CallsOf(ticks) = <<>>
  /\ WeightCharged = Overhead

\* C4: a tick invokes step only for the registry names absent from the
\* ledger, in registry order; a name recorded in the ledger (at genesis or by
\* an earlier step) never has its step invoked again.
C4_Resumable ==
  /\ \A i \in DOMAIN calls :
       /\ calls[i].name \notin genesis
       /\ calls[i].name \notin calls[i].before
       /\ \A j \in 1..(i - 1) : calls[j].name # calls[i].name
  /\ \A t \in 1..ticks :
       LET cs == CallsOf(t)
       IN cs # <<>> => CallNames(cs) = Outstanding(registry, cs[1].before)

\* C4 witness: the initial ledger held some but not all registry names, the
\* rest ran, and a later tick found nothing to resume.
C4_Witness ==
  /\ ticks >= 2
  /\ genesis \cap RangeOf(registry) # {}
  /\ Len(calls) >= 2
  /\ CallsOf(ticks) = <<>>

\* C5: the events of every tick are RuntimeUpgradeStarted first and once,
\* then for each migration run MigrationStarted{name} directly followed by
\* MigrationCompleted{name, consumed} of the same name (each name at most
\* once), and RuntimeUpgradeCompleted{weight} last and once.
C5_EventOrder ==
  ticks >= 1 =>
    LET te == TickEvents
        n  == Len(te)
        ran == CallsOf(ticks)
    IN /\ n = 2 + 2 * Len(ran)
       /\ te[1] = RuntimeUpgradeStarted
       /\ te[n].type = "RuntimeUpgradeCompleted"
       /\ \A i \in 2..n : te[i].type # "RuntimeUpgradeStarted"
       /\ \A i \in 1..(n - 1) : te[i].type # "RuntimeUpgradeCompleted"
       /\ \A k \in DOMAIN ran :
            /\ te[2 * k] = MigrationStarted(ran[k].name)
            /\ te[2 * k + 1].type = "MigrationCompleted"
            /\ te[2 * k + 1].migration_name = ran[k].name
       /\ \A j, k \in DOMAIN ran : j # k => ran[j].name # ran[k].name

\* C5 witness: a tick that ran three migrations deposited eight events.
C5_Witness ==
  /\ ticks >= 1
  /\ Len(TickEvents) = 8
  /\ TickEvents[2].type = "MigrationStarted"
  /\ TickEvents[7].type = "MigrationCompleted"

\* C6: a tick that finds nothing outstanding deposits exactly two events,
\* RuntimeUpgradeStarted then RuntimeUpgradeCompleted with the fixed overhead.
C6_IdleTickEvents ==
  [][ (ticks' = ticks + 1 /\ Outstanding(registry, ledger) = <<>>) =>
        TickEvents' =
          << RuntimeUpgradeStarted, RuntimeUpgradeCompleted(Overhead) >>
    ]_vars

\* C6 witness: the first tick of a runtime whose registered migrations were
\* all completed at genesis deposited just the two cycle events.
C6_Witness ==
  /\ ticks = 1
  /\ registry # <<>>
  /\ RangeOf(registry) \subseteq genesis
  /\ events = << RuntimeUpgradeStarted, RuntimeUpgradeCompleted(Overhead) >>

\* C7: the weight in a tick's RuntimeUpgradeCompleted is the fixed overhead
\* plus the sum of the weights the steps of that tick returned, and each
\* MigrationCompleted carries exactly the weight its step returned.
C7_WeightAccounting ==
  ticks >= 1 =>
    LET ran == CallsOf(ticks)
        done == SelectSeq(TickEvents, LAMBDA e : e.type = "MigrationCompleted")
    IN /\ WeightCharged = Overhead + SumSeq(CallWeights(ran))
       /\ Len(done) = Len(ran)
       /\ \A k \in DOMAIN ran :
            /\ done[k].migration_name = ran[k].name
            /\ done[k].weight = ran[k].consumed

\* C7 witness: one step returning 1 gives a charged weight of 100000001.
C7_Witness ==
  /\ ticks = 1
  /\ Len(calls) = 1
  /\ calls[1].consumed = 1
  /\ WeightCharged = 100000001

\* C8 (as stated): the value a tick returns to the host is the weight its
\* RuntimeUpgradeCompleted event carries.
C8_ReturnsChargedWeight ==
  ticks >= 1 => ret = WeightCharged

\* C8 (amended): a tick returns max_block to the host, while its
\* RuntimeUpgradeCompleted event carries the accumulated cost plus the fixed
\* overhead; the two agree only when max_block happens to equal that sum.
C8_ReturnsMaxBlock ==
  ticks >= 1 =>
    /\ ret = max_block
    /\ (ret = WeightCharged) <=>
         (max_block = Overhead + SumSeq(CallWeights(CallsOf(ticks))))

\* C8 witness: a tick ran a migration and returned a value that differs from
\* the weight in its event.
C8_Witness ==
  /\ ticks >= 1
  /\ CallsOf(ticks) # <<>>
  /\ ret = max_block
  /\ ret # WeightCharged

\* C9: a tick run with no outstanding migration returns max_block.
C9_IdleTickReturnsMaxBlock ==
  [][ (ticks' = ticks + 1 /\ is_fully_upgraded) => ret' = max_block ]_vars

\* C9 witness: an idle tick under a max_block above the overhead returned
\* max_block, not the overhead its event carries.
C9_Witness ==
  /\ ticks >= 1
  /\ Len(TickEvents) = 2
  /\ max_block > Overhead
  /\ ret = max_block
  /\ WeightCharged = Overhead

\* C10: no step of the system removes a name from the ledger.
C10_LedgerMonotonic ==
  [][ ledger \subseteq ledger' ]_vars

\* C10 witness: a ledger that held a name at genesis has grown through ticks
\* and still holds every genesis name.
C10_Witness ==
  /\ ticks >= 2
  /\ genesis # {}
  /\ genesis \subseteq ledger
  /\ Cardinality(ledger) >= Cardinality(genesis) + 2

C16_LedgerCommitsBetweenSteps ==
  /\ \A i \in DOMAIN calls :
       /\ calls[i].name \notin calls[i].before
       /\ \A p, q \in DOMAIN registry :
            (q < p /\ registry[p] = calls[i].name) =>
              registry[q] \in calls[i].before
  /\ \A i \in DOMAIN calls :
       (i > 1 /\ calls[i - 1].tick = calls[i].tick) =>
         calls[i].before = calls[i - 1].before \cup {calls[i - 1].name}

\* C16 witness: in one tick the third registered migration started with the
\* first two names, and only them, added to an empty ledger.
C16_Witness ==
  /\ genesis = {}
  /\ Len(calls) = 3
  /\ calls[3].tick = 1
  /\ calls[3].name = registry[3]
  /\ calls[3].before = {registry[1], registry[2]}
  /\ calls[1].before = {}

\* C17: if the host keeps invoking ticks, the scheduler eventually is Idle
\* (is_fully_upgraded() holds) from every initial ledger, and once Idle it
\* stays Idle.
C17_EventuallyIdleForever ==
  /\ <>[]is_fully_upgraded
  /\ [][is_fully_upgraded => is_fully_upgraded']_vars

\* C17 witness: a scheduler that started with all three migrations
\* outstanding is Idle and has stayed so through later ticks and blocks.
C17_Witness ==
  /\ ticks = MaxTicks
  /\ block_number > 1
  /\ Len(registry) = 3
  /\ RangeOf(registry) \cap genesis = {}
  /\ CallsOf(1) # <<>>
  /\ is_fully_upgraded
FailedSet(cs) == { cs[i].name : i \in { j \in DOMAIN cs : cs[j].outcome = "err" } }

\* C13: when a pre_check or post_check fails, the hook returns a failure that
\* carries the name of every descriptor whose check failed (it never reports
\* success), and the ledger is left as it was: nothing recorded at genesis or
\* by the upgrade is rolled back.
C13_CheckFailureNamedNoRollback ==
  LET cs == IF try_result.stage = "post_check" THEN post_calls ELSE pre_calls
  IN /\ (FailedSet(pre_calls) \cup FailedSet(post_calls) # {}) =>
          /\ try_phase = "failed"
          /\ ~try_result.ok
          /\ RangeOf(try_result.names) = FailedSet(cs)
     /\ try_result.ok => (FailedSet(cs) = {} /\ try_phase # "failed")
     /\ try_phase = "failed" =>
          /\ FailedSet(cs) # {}
          /\ IF try_result.stage = "pre_check"
             THEN ledger = genesis
             ELSE ledger = genesis \cup RangeOf(registry)

\* C13 witness: after the upgrade ran two migrations, the post_check of one
\* of them failed; the failure names it and the ledger keeps both.
C13_Witness ==
  /\ try_phase = "failed"
  /\ try_result.stage = "post_check"
  /\ try_result.names = <<"migration2">>
  /\ registry = <<"migration1", "migration2">>
  /\ genesis = {}
  /\ ledger = {"migration1", "migration2"}

\* C15: pre_upgrade invokes the pre_check of every registered descriptor;
\* post_upgrade invokes post_check for exactly the descriptors whose snapshot
\* was collected, each with its own stored snapshot, after the scheduler has
\* run the migrations.
C15_PostChecksWhatPreCollected ==
  /\ try_phase # "idle" =>
       [i \in DOMAIN pre_calls |-> pre_calls[i].name] = registry
  /\ try_phase \in {"collected", "verified"} =>
       /\ DOMAIN snapshots = RangeOf(registry)
       /\ \A i \in DOMAIN pre_calls :
            snapshots[pre_calls[i].name] = pre_calls[i].outcome
  /\ (try_phase = "verified" \/ try_result.stage = "post_check") =>
       /\ [i \in DOMAIN post_calls |-> post_calls[i].name] = registry
       /\ \A i \in DOMAIN post_calls :
            /\ post_calls[i].snapshot = snapshots[post_calls[i].name]
            /\ post_calls[i].snapshot = pre_calls[i].outcome
       /\ ticks > pre_ticks
       /\ is_fully_upgraded
  /\ (try_phase \in {"idle", "collected"} \/ try_result.stage = "pre_check") =>
       post_calls = <<>>

\* C15 witness: two descriptors, one of them completed at genesis, gave
\* different snapshots; after the upgrade each post_check got its own.
C15_Witness ==
  /\ try_phase = "verified"
  /\ registry = <<"migration1", "migration2">>
  /\ genesis = {"migration1"}
  /\ Len(post_calls) = 2
  /\ post_calls[1].snapshot = "snapshotA"
  /\ post_calls[2].snapshot = "snapshotB"
  /\ Len(calls) = 1
\* Smallest number of batches of k that cover n entries.
CeilDiv(n, k) == (n + k - 1) \div k

\* C14: with N >= 1 legacy entries present, a clear call with limit >= N
\* succeeds and removes all N, and every later call, whatever its limit, fails
\* and changes nothing.
C14_ClearAllThenFail ==
  /\ \A i \in DOMAIN clear_log :
       LET c == clear_log[i]
       IN (Cardinality(c.before) >= 1 /\ c.limit >= Cardinality(c.before)) =>
            /\ c.ok
            /\ c.after = {}
            /\ \A j \in DOMAIN clear_log :
                 j > i => (~clear_log[j].ok /\ clear_log[j].after = {})
  /\ clear_log # <<>> => legacy = clear_log[Len(clear_log)].after

\* C14 witness: four entries, cleared by one call with limit 4; two later
\* calls with limits 1 and 5 failed.
C14_Witness ==
  /\ legacy0 = 4
  /\ Len(clear_log) = 3
  /\ clear_log[1].limit = 4 /\ clear_log[1].ok
  /\ Cardinality(clear_log[1].before) = 4
  /\ clear_log[2].limit = 1 /\ ~clear_log[2].ok
  /\ clear_log[3].limit = 5 /\ ~clear_log[3].ok
  /\ legacy = {}

\* C18: a clear call with limit k removes at most k entries; with N present
\* and k < N it succeeds and leaves exactly N - k of them, so that with a
\* fixed k >= 1 exactly the first ceil(N/k) calls succeed and the next fails.
C18_ClearBoundedByLimit ==
  /\ \A i \in DOMAIN clear_log :
       LET c == clear_log[i]
       IN /\ c.after \subseteq c.before
          /\ Cardinality(c.before) - Cardinality(c.after) <= c.limit
          /\ c.limit < Cardinality(c.before) =>
               /\ c.ok
               /\ Cardinality(c.after) = Cardinality(c.before) - c.limit
          /\ c.before = IF i = 1 THEN 0..(legacy0 - 1) ELSE clear_log[i - 1].after
  /\ \A k \in 1..(MaxEntries + 1) :
       (\A i \in DOMAIN clear_log : clear_log[i].limit = k) =>
         \A i \in DOMAIN clear_log :
           clear_log[i].ok <=> i <= CeilDiv(legacy0, k)

\* C18 witness: three entries and limit 2: the first call left one entry,
\* the second removed it, the third failed (ceil(3/2) = 2).
C18_Witness ==
  /\ legacy0 = 3
  /\ Len(clear_log) = 3
  /\ \A i \in 1..3 : clear_log[i].limit = 2
  /\ clear_log[1].ok /\ Cardinality(clear_log[1].after) = 1
  /\ clear_log[2].ok /\ clear_log[2].after = {}
  /\ ~clear_log[3].ok
\* C19: the two maps are inverses of each other: an asset id maps to a
\* foreign asset exactly when that foreign asset maps back to the asset id.
C19_MappingsAreInverse ==
  \A a \in AssetIds, f \in ForeignAssets :
    convert_back(a) = f <=> convert(f) = a

\* C20: after a successful change_existing_asset_type(a, new), a maps to new,
\* new maps back to a, and the previous foreign asset, when different from
\* new, maps to no asset id.
C20_ChangeInstallsBothDirections ==
  (asset_result.call = "change_existing_asset_type"
     /\ asset_result.result = "Ok") =>
    /\ convert_back(asset_result.asset_id) = asset_result.foreign_asset
    /\ convert(asset_result.foreign_asset) = asset_result.asset_id
    /\ asset_result.previous # asset_result.foreign_asset =>
         convert(asset_result.previous) = None

\* The errors a foreign-asset call can return.
AssetErrors ==
  {"BadOrigin", "AssetAlreadyExists", "AssetDoesNotExist", "FungiblesError"}

\* C21: a foreign-asset call that fails (unauthorized origin,
\* AssetAlreadyExists, AssetDoesNotExist, failing Fungibles create or
\* start_destroy) leaves both mappings unchanged and emits no event; create on
\* a mapped asset id and change/remove/destroy on an unmapped one never
\* succeed.
C21_FailedCallChangesNothing ==
  [][asset_calls' = asset_calls + 1 =>
       LET r == asset_result' IN
       /\ r.result \in AssetErrors \cup {"Ok"}
       /\ r.result \in AssetErrors =>
            /\ AssetIdToForeignAsset' = AssetIdToForeignAsset
            /\ ForeignAssetToAssetId' = ForeignAssetToAssetId
            /\ asset_events' = asset_events
            /\ last_event' = last_event
       /\ (r.call = "create_foreign_asset"
             /\ AssetIdToForeignAsset[r.asset_id] # None) =>
            r.result \in {"BadOrigin", "AssetAlreadyExists"}
       /\ (r.call # "create_foreign_asset"
             /\ AssetIdToForeignAsset[r.asset_id] = None) =>
            r.result \in {"BadOrigin", "AssetDoesNotExist"}
       /\ r.result = "Ok" => asset_events' = asset_events + 1]_vars

\* A destroy whose start_destroy failed, on an asset that is (still) mapped,
\* after an earlier event.
C21_Witness ==
  /\ asset_result.call = "destroy_foreign_asset"
  /\ asset_result.result = "FungiblesError"
  /\ AssetIdToForeignAsset[asset_result.asset_id] # None
  /\ asset_events >= 1

\* C22: verify on a header without digest items returns Err("HeaderUnsealed")
\* and no import parameters; on any other header it never returns that error,
\* and the import parameters it returns carry the header without its last
\* digest item (the others in their order, the rest of the header as given)
\* and that last item as the only post-digest.
C22_SealPoppedIntoPostDigests ==
  verify_output.called =>
    LET digest == verify_input.header.digest IN
    /\ digest = <<>> =>
         /\ ~verify_output.ok
         /\ verify_output.error = "HeaderUnsealed"
         /\ verify_output.params = NoneOpt
    /\ digest # <<>> => verify_output.error # "HeaderUnsealed"
    /\ verify_output.ok =>
         LET params == verify_output.params[1] IN
         /\ digest # <<>>
         /\ params.post_digests = <<digest[Len(digest)]>>
         /\ params.header.digest = SubSeq(digest, 1, Len(digest) - 1)
         /\ Append(params.header.digest, params.post_digests[1]) = digest
         /\ params.header.parent_hash = verify_input.header.parent_hash

\* An accepted header whose first and last digest items differ.
C22_Witness ==
  /\ verify_output.called
  /\ verify_output.ok
  /\ Len(verify_input.header.digest) = MaxDigest
  /\ Head(verify_input.header.digest) = "Seal"
  /\ verify_input.header.digest[MaxDigest] = "PreRuntime"

====
